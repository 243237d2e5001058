------------------------- MODULE RetentionPurgeProofs -------------------------
(***************************************************************************)
(* The sweep is never run twice at once, never outlives the pool, and never *)
(* deletes a row that is not expired: for every policy, batch size, cap,    *)
(* number of rows and pattern of failures.                                  *)
(***************************************************************************)
EXTENDS RetentionPurge, TLAPS

(* inFlight guards every running sweep; a closed process has neither a      *)
(* sweep nor a timer.                                                       *)
Guarded ==
  /\ \A s \in SweepId : Running(s) => inFlight
  /\ timer => process = "up" /\ PolicyIsActive
  /\ process = "down" => ~inFlight

(* The cutoff of a running sweep is not ahead of the clock.                 *)
CutoffPast == \A s \in SweepId : Running(s) => sweep[s].now <= clock

(* A delivery has its event, and its event's age.                           *)
DeliveryAge ==
  \A i \in RowId : rows["deliveries"][i] # NoRow => rows["deliveries"][i] = rows["events"][i]

IInv == TypeOK /\ OneSweep /\ Guarded /\ CutoffPast /\ DeliveryAge

-----------------------------------------------------------------------------
(* The order of purgeOnce has a first table in every set of tables.         *)
LEMMA FirstOfIn == ASSUME NEW T \in SUBSET Table, T # {} PROVE FirstOf(T) \in T
<1>1. \E t \in T : Before(t) \cap T = {}
  <2>1. CASE "deliveries" \in T
    BY <2>1 DEF Before
  <2>2. CASE "deliveries" \notin T /\ "events" \in T
    BY <2>2 DEF Before
  <2>3. CASE "deliveries" \notin T /\ "events" \notin T /\ "audit" \in T
    BY <2>3 DEF Before
  <2>4. CASE T = {"chains"}
    BY <2>4 DEF Before
  <2> QED BY <2>1, <2>2, <2>3, <2>4 DEF Table, Swept
<1> QED BY <1>1 DEF FirstOf

(* With a window set there is a first table to sweep.                       *)
LEMMA FirstTableIn == PolicyIsActive => FirstTable \in Table
<1> SUFFICES ASSUME PolicyIsActive PROVE FirstTable \in Table
  OBVIOUS
<1>1. PICK t \in Swept : Window[t] # Keep
  BY DEF PolicyIsActive
<1>2. t \in {u \in Table : WindowOf(u) # Keep}
  BY <1>1 DEF Table, Swept, WindowOf
<1> QED BY <1>2, FirstOfIn DEF FirstTable

(* The two slots.                                                           *)
LEMMA RunningType == ASSUME TypeOK, NEW s \in SweepId, Running(s) PROVE sweep[s] \in Sweep
  BY DEF TypeOK, Running

-----------------------------------------------------------------------------
(* How a sweep goes on, as far as the invariant is concerned: it ends, or   *)
(* it moves to another table or batch with the cutoff it had.               *)
Continues(s) ==
  \/ Finish(s)
  \/ \E t \in Table, n \in 0..(MaxBatches - 1) :
       /\ sweep' = [sweep EXCEPT ![s].pc = t, ![s].batches = n]
       /\ inFlight' = inFlight

(* The next table is a table.                                               *)
LEMMA NextTableContinues ==
  ASSUME TypeOK, NEW s \in SweepId, Running(s), NextTable(s) PROVE Continues(s)
<1>1. CASE After(sweep[s].pc) = {}
  BY <1>1 DEF NextTable, Continues
<1>2. CASE After(sweep[s].pc) # {}
  <2>1. FirstOf(After(sweep[s].pc)) \in Table
    BY <1>2, FirstOfIn DEF After
  <2>2. /\ sweep' = [sweep EXCEPT ![s].pc = FirstOf(After(sweep[s].pc)), ![s].batches = 0]
        /\ inFlight' = inFlight
    BY <1>2 DEF NextTable
  <2>3. 0 \in 0..(MaxBatches - 1)
    BY PurgeAssumption
  <2> QED BY <2>1, <2>2, <2>3 DEF Continues
<1> QED BY <1>1, <1>2

(* The loop of deleteInBatches stays below its cap.                         *)
LEMMA NextBatchContinues ==
  ASSUME TypeOK, NEW s \in SweepId, Running(s), NextBatch(s) PROVE Continues(s)
<1>1. CASE sweep[s].batches + 1 = MaxBatches
  BY <1>1, NextTableContinues DEF NextBatch
<1>2. CASE sweep[s].batches + 1 # MaxBatches
  <2>1. sweep[s] \in Sweep
    BY RunningType
  <2>2. sweep[s].batches + 1 \in 0..(MaxBatches - 1)
    <3>1. sweep[s].batches \in 0..(MaxBatches - 1)
      BY <2>1 DEF Sweep
    <3> QED BY <3>1, <1>2, PurgeAssumption
  <2>3. /\ sweep' = [sweep EXCEPT ![s].pc = sweep[s].pc, ![s].batches = sweep[s].batches + 1]
        /\ inFlight' = inFlight
    BY <1>2, <2>1 DEF NextBatch, TypeOK, Sweep
  <2>4. sweep[s].pc \in Table
    BY <2>1 DEF Sweep
  <2> QED BY <2>2, <2>3, <2>4 DEF Continues
<1> QED BY <1>1, <1>2

(* A sweep that goes on keeps everything but the rows' part of IInv.        *)
LEMMA ContinuesKeeps ==
  ASSUME IInv, NEW s \in SweepId, Running(s), Continues(s), UNCHANGED <<clock, processVars>>
  PROVE  /\ sweep' \in [SweepId -> Sweep \cup {Idle}] /\ inFlight' \in BOOLEAN
         /\ OneSweep' /\ Guarded' /\ CutoffPast'
<1> USE DEF IInv, processVars
<1>1. sweep[s] \in Sweep
  BY RunningType
<1>2. \A s2 \in SweepId : s2 # s => sweep[s2] = Idle
  BY DEF OneSweep, Running
<1>3. CASE Finish(s)
  <2>1. sweep' = [s2 \in SweepId |-> Idle]
    BY <1>2, <1>3 DEF Finish, TypeOK
  <2>2. \A s2 \in SweepId : ~Running(s2)'
    BY <2>1 DEF Running
  <2> QED BY <1>3, <2>1, <2>2 DEF Finish, OneSweep, Guarded, CutoffPast
<1>4. ASSUME NEW t \in Table, NEW n \in 0..(MaxBatches - 1),
             sweep' = [sweep EXCEPT ![s].pc = t, ![s].batches = n], inFlight' = inFlight
      PROVE  /\ sweep' \in [SweepId -> Sweep \cup {Idle}] /\ inFlight' \in BOOLEAN
             /\ OneSweep' /\ Guarded' /\ CutoffPast'
  <2>1. sweep'[s] \in Sweep /\ sweep'[s].now = sweep[s].now
    BY <1>1, <1>4 DEF TypeOK, Sweep
  <2>2. \A s2 \in SweepId : s2 # s => sweep'[s2] = Idle
    BY <1>2, <1>4 DEF TypeOK
  <2>3. sweep' \in [SweepId -> Sweep \cup {Idle}]
    BY <1>4, <2>1, <2>2 DEF TypeOK
  <2>4. OneSweep'
    BY <2>2 DEF OneSweep, Running
  <2>5. Guarded'
    BY <1>4, <2>2 DEF Guarded, Running
  <2>6. CutoffPast'
    BY <2>1, <2>2 DEF CutoffPast, Running
  <2> QED BY <1>4, <2>3, <2>4, <2>5, <2>6 DEF TypeOK
<1> QED BY <1>3, <1>4 DEF Continues

(* A sweep that starts takes the guard.                                     *)
LEMMA RunGuardedKeeps ==
  ASSUME IInv, PolicyIsActive, RunGuarded, clock' = clock
  PROVE  /\ sweep' \in [SweepId -> Sweep \cup {Idle}] /\ inFlight' \in BOOLEAN
         /\ OneSweep' /\ CutoffPast' /\ (\A s \in SweepId : Running(s)' => inFlight')
<1> USE DEF IInv
<1>1. CASE inFlight
  BY <1>1 DEF RunGuarded, TypeOK, OneSweep, CutoffPast, Guarded, Running
<1>2. CASE ~inFlight
  <2>1. \A s \in SweepId : sweep[s] = Idle
    BY <1>2 DEF Guarded, Running
  <2>2. PICK s \in SweepId :
          /\ sweep' = [sweep EXCEPT ![s] = [pc |-> FirstTable, now |-> clock, batches |-> 0]]
          /\ inFlight' = TRUE
    BY <1>2 DEF RunGuarded, StartSweep
  <2>3. [pc |-> FirstTable, now |-> clock, batches |-> 0] \in Sweep
    BY FirstTableIn, PurgeAssumption DEF Sweep, TypeOK
  <2>4. \A s2 \in SweepId : s2 # s => sweep'[s2] = Idle
    BY <2>1, <2>2 DEF TypeOK
  <2>5. sweep' \in [SweepId -> Sweep \cup {Idle}] /\ sweep'[s].now = clock
    BY <2>1, <2>2, <2>3 DEF TypeOK
  <2>6. clock <= clock'
    BY DEF TypeOK
  <2> QED BY <2>2, <2>4, <2>5, <2>6 DEF OneSweep, CutoffPast, Running
<1> QED BY <1>1, <1>2

-----------------------------------------------------------------------------
(* The initial states satisfy the invariant.                                *)
LEMMA InitIInv == Init => IInv
<1> SUFFICES ASSUME Init PROVE IInv
  OBVIOUS
<1>1. TypeOK
  BY DEF Init, TypeOK
<1>2. OneSweep /\ Guarded /\ CutoffPast
  BY DEF Init, OneSweep, Guarded, CutoffPast, Running
<1>3. DeliveryAge
  BY DEF Init, DeliveryAge, Table
<1> QED BY <1>1, <1>2, <1>3 DEF IInv

(* What one batch deletes.                                                  *)
LEMMA BatchDeletes ==
  ASSUME IInv, NEW s \in SweepId, Batch(s)
  PROVE  /\ rows' \in [Table -> [RowId -> Nat \cup {NoRow}]]
         /\ DeliveryAge'
         /\ \A t \in Table, i \in RowId : rows'[t][i] # rows[t][i] =>
              /\ rows'[t][i] = NoRow
              /\ WindowOf(t) # Keep /\ rows[t][i] < clock - WindowOf(t)
<1> DEFINE pc == sweep[s].pc
           now == sweep[s].now
<1> USE DEF IInv
<1>1. Running(s) /\ sweep[s] \in Sweep
  BY RunningType DEF Batch
<1>2. pc \in Table /\ now \in Nat /\ now <= clock
  BY <1>1 DEF Sweep, CutoffPast
<1>3. PICK D \in SUBSET Doomed(pc, now) : Delete(pc, D)
  BY DEF Batch
<1>4. \A t \in Table, i \in RowId :
        rows'[t][i] = IF i \in D /\ (t = pc \/ (pc = "events" /\ t = "deliveries"))
                      THEN NoRow ELSE rows[t][i]
  BY <1>3 DEF Delete
<1>5. rows' \in [Table -> [RowId -> Nat \cup {NoRow}]]
  BY <1>3 DEF Delete, TypeOK
<1>6. DeliveryAge'
  <2>1. "events" \in Table /\ "deliveries" \in Table
    BY DEF Table, Swept
  <2>2. SUFFICES ASSUME NEW i \in RowId, rows'["deliveries"][i] # NoRow
                 PROVE  rows'["deliveries"][i] = rows'["events"][i]
    BY DEF DeliveryAge
  <2> QED BY <1>4, <2>1, <2>2 DEF DeliveryAge
<1>7. \A i \in D : /\ WindowOf(pc) # Keep /\ rows[pc][i] # NoRow
                   /\ rows[pc][i] < now - WindowOf(pc)
  BY <1>3 DEF Doomed, Expired
<1>8. WindowOf(pc) # Keep => WindowOf(pc) \in Nat
  BY <1>2, PurgeAssumption DEF WindowOf, Table, Swept
<1>9. ASSUME NEW t \in Table, NEW i \in RowId, rows'[t][i] # rows[t][i]
      PROVE  /\ rows'[t][i] = NoRow
             /\ WindowOf(t) # Keep /\ rows[t][i] < clock - WindowOf(t)
  <2>1. i \in D /\ rows'[t][i] = NoRow /\ rows[t][i] # NoRow
        /\ (t = pc \/ (pc = "events" /\ t = "deliveries"))
    BY <1>4, <1>9
  <2>2. rows[t][i] = rows[pc][i] /\ WindowOf(t) = WindowOf(pc)
    BY <2>1, <1>2 DEF DeliveryAge, WindowOf, Table, Swept
  <2>3. rows[pc][i] \in Nat
    BY <1>2, <1>7, <2>1 DEF TypeOK
  <2>4. rows[pc][i] < clock - WindowOf(pc)
    BY <1>2, <1>7, <1>8, <2>1, <2>3 DEF TypeOK
  <2> QED BY <1>7, <2>1, <2>2, <2>4
<1> QED BY <1>5, <1>6, <1>9

(* Every step preserves the invariant.                                      *)
LEMMA NextIInv == IInv /\ [Next]_vars => IInv'
<1> SUFFICES ASSUME IInv, [Next]_vars PROVE IInv'
  OBVIOUS
<1> USE DEF IInv
<1>1. CASE TimePasses
  BY <1>1 DEF TimePasses, processVars, TypeOK, OneSweep, Guarded, CutoffPast, DeliveryAge, Running, Sweep
<1>2. ASSUME NEW t \in Swept, NEW i \in RowId, Insert(t, i) PROVE IInv'
  <2>1. t \in Table /\ t # "deliveries" /\ "deliveries" \in Table /\ "events" \in Table
    BY DEF Table, Swept
  <2>2. rows' \in [Table -> [RowId -> Nat \cup {NoRow}]]
    BY <1>2, <2>1 DEF Insert, TypeOK
  <2>3. DeliveryAge'
    BY <1>2, <2>1 DEF Insert, TypeOK, DeliveryAge
  <2> QED BY <1>2, <2>2, <2>3
      DEF Insert, processVars, TypeOK, OneSweep, Guarded, CutoffPast, Running
<1>3. ASSUME NEW i \in RowId, Enqueue(i) PROVE IInv'
  <2>1. "deliveries" \in Table /\ "events" \in Table
    BY DEF Table, Swept
  <2>2. rows' \in [Table -> [RowId -> Nat \cup {NoRow}]]
    BY <1>3, <2>1 DEF Enqueue, TypeOK
  <2>3. DeliveryAge'
    BY <1>3, <2>1 DEF Enqueue, TypeOK, DeliveryAge
  <2> QED BY <1>3, <2>2, <2>3
      DEF Enqueue, processVars, TypeOK, OneSweep, Guarded, CutoffPast, Running
<1>4. ASSUME NEW s \in SweepId, Batch(s) PROVE IInv'
  <2>1. Running(s) /\ UNCHANGED <<clock, processVars, faults>>
    BY <1>4 DEF Batch
  <2>2. Continues(s)
    BY <1>4, <2>1, NextTableContinues, NextBatchContinues DEF Batch
  <2> QED BY <1>4, <2>1, <2>2, BatchDeletes, ContinuesKeeps DEF TypeOK, processVars
<1>5. ASSUME NEW s \in SweepId, BatchFails(s) PROVE IInv'
  <2>1. Running(s) /\ Continues(s) /\ UNCHANGED <<clock, rows, processVars>>
    BY <1>5 DEF BatchFails, Continues
  <2>2. faults' \in Nat
    BY <1>5 DEF BatchFails, TypeOK
  <2> QED BY <2>1, <2>2, ContinuesKeeps DEF TypeOK, processVars, DeliveryAge
<1>6. CASE TimerFires
  <2>1. PolicyIsActive /\ RunGuarded /\ UNCHANGED <<clock, rows, processVars, faults>>
    BY <1>6 DEF TimerFires, Guarded
  <2>2. Guarded'
    BY <1>6, <2>1, RunGuardedKeeps DEF TimerFires, Guarded, processVars
  <2> QED BY <2>1, <2>2, RunGuardedKeeps DEF TypeOK, processVars, DeliveryAge
<1>7. CASE Boot
  <2>1. CASE PolicyIsActive
    <3>1. RunGuarded /\ timer' = TRUE /\ process' = "up"
      BY <1>7, <2>1 DEF Boot
    <3>2. Guarded'
      BY <1>7, <2>1, <3>1, RunGuardedKeeps DEF Boot, Guarded
    <3> QED BY <1>7, <2>1, <3>1, <3>2, RunGuardedKeeps DEF Boot, TypeOK, DeliveryAge
  <2>2. CASE ~PolicyIsActive
    BY <1>7, <2>2 DEF Boot, TypeOK, OneSweep, Guarded, CutoffPast, DeliveryAge, Running
  <2> QED BY <2>1, <2>2
<1>8. CASE Stop
  <2>0. restarts' \in Nat
    BY <1>8 DEF Stop, TypeOK
  <2>1. TypeOK' /\ DeliveryAge'
    BY <1>8, <2>0, Zenon DEF Stop, TypeOK, DeliveryAge
  <2>2. OneSweep' /\ CutoffPast'
    BY <1>8 DEF Stop, OneSweep, CutoffPast, Running
  <2>3. Guarded'
    BY <1>8 DEF Stop, Guarded, Running, PolicyIsActive
  <2> QED BY <2>1, <2>2, <2>3
<1>9. CASE Close
  <2>1. TypeOK' /\ DeliveryAge'
    BY <1>9 DEF Close, TypeOK, DeliveryAge
  <2>2. OneSweep' /\ CutoffPast'
    BY <1>9 DEF Close, OneSweep, CutoffPast, Running
  <2>3. Guarded'
    BY <1>9 DEF Close, Guarded, Running, PolicyIsActive
  <2> QED BY <2>1, <2>2, <2>3
<1>10. CASE Crash
  <2>0. restarts' \in Nat
    BY <1>10 DEF Crash, TypeOK
  <2>1. TypeOK' /\ DeliveryAge'
    BY <1>10, <2>0, Zenon DEF Crash, TypeOK, DeliveryAge
  <2>2. OneSweep' /\ CutoffPast'
    BY <1>10 DEF Crash, OneSweep, CutoffPast, Running
  <2>3. Guarded'
    BY <1>10 DEF Crash, Guarded, Running, PolicyIsActive
  <2> QED BY <2>1, <2>2, <2>3
<1>11. CASE UNCHANGED vars
  <2>1. TypeOK' /\ DeliveryAge'
    BY <1>11 DEF vars, TypeOK, DeliveryAge
  <2>2. OneSweep' /\ CutoffPast'
    BY <1>11 DEF vars, OneSweep, CutoffPast, Running
  <2>3. Guarded'
    BY <1>11 DEF vars, Guarded, Running, PolicyIsActive
  <2> QED BY <2>1, <2>2, <2>3
<1> QED BY <1>1, <1>2, <1>3, <1>4, <1>5, <1>6, <1>7, <1>8, <1>9, <1>10, <1>11 DEF Next

(* purge.ts runGuarded: one sweep at a time.                                 *)
THEOREM SweepIsExclusive == Spec => []OneSweep
<1>1. IInv => OneSweep
  BY DEF IInv
<1> QED BY <1>1, InitIInv, NextIInv, PTL DEF Spec

(* main.ts shutdown: no sweep is left when the pool closes.                  *)
THEOREM QuietWhenClosed == Spec => []ClosedMeansQuiet
<1>1. IInv => ClosedMeansQuiet
  BY DEF IInv, Guarded, ClosedMeansQuiet
<1> QED BY <1>1, InitIInv, NextIInv, PTL DEF Spec

(* Every delivery has its event, whichever table the sweep stopped in.       *)
THEOREM DeliveryHasEvent == Spec => []NoOrphanDelivery
<1>1. IInv => NoOrphanDelivery
  BY DEF IInv, DeliveryAge, NoOrphanDelivery
<1> QED BY <1>1, InitIInv, NextIInv, PTL DEF Spec

(* purge.ts purgeOnce: nothing is deleted before its window has passed, and  *)
(* nothing at all from a table without one.                                  *)
THEOREM OnlyExpiredGoes == Spec => OnlyExpiredDeleted
<1> DEFINE Gone(t, i) == rows[t][i] # NoRow /\ rows'[t][i] = NoRow
           Old(t, i) == WindowOf(t) # Keep /\ rows[t][i] < clock - WindowOf(t)
           Deleted == \A t \in Table, i \in RowId : Gone(t, i) => Old(t, i)
<1>1. ASSUME IInv, Next PROVE Deleted
  <2> USE <1>1 DEF IInv
  <2>1. CASE rows' = rows
    BY <2>1
  <2>2. ASSUME NEW t \in Swept, NEW i \in RowId, Insert(t, i) PROVE Deleted
    <3>1. t \in Table
      BY DEF Table
    <3>2. \A u \in Table, j \in RowId : rows'[u][j] = rows[u][j] \/ rows'[u][j] = clock
      BY <2>2, <3>1 DEF Insert, TypeOK
    <3> QED BY <3>2 DEF TypeOK, NoRow
  <2>3. ASSUME NEW i \in RowId, Enqueue(i) PROVE Deleted
    <3>1. "deliveries" \in Table /\ "events" \in Table
      BY DEF Table, Swept
    <3>2. rows["events"][i] = clock
      BY <2>3 DEF Enqueue
    <3>3. \A u \in Table, j \in RowId : rows'[u][j] = rows[u][j] \/ rows'[u][j] = clock
      BY <2>3, <3>1, <3>2 DEF Enqueue, TypeOK
    <3> QED BY <3>3 DEF TypeOK, NoRow
  <2>4. ASSUME NEW s \in SweepId, Batch(s) PROVE Deleted
    BY <2>4, BatchDeletes
  <2> QED BY <1>1, <2>1, <2>2, <2>3, <2>4
      DEF Next, TimePasses, BatchFails, TimerFires, Boot, Stop, Close, Crash
<1>2. IInv /\ [Next]_vars => [Deleted]_vars
  BY <1>1
<1>3. [Deleted]_vars => [\A t \in Table, i \in RowId :
                           (rows[t][i] # NoRow /\ rows'[t][i] = NoRow) =>
                             WindowOf(t) # Keep /\ rows[t][i] < clock - WindowOf(t)]_vars
  OBVIOUS
<1> QED BY <1>2, <1>3, InitIInv, NextIInv, PTL DEF Spec, OnlyExpiredDeleted

-----------------------------------------------------------------------------
(* DELETE statements a sweep still has: MAX_BATCHES for its table and for    *)
(* each that comes after it.                                                 *)
StatementsLeft(c) ==
  CASE c.pc = "deliveries" -> 4 * MaxBatches - c.batches
    [] c.pc = "events"     -> 3 * MaxBatches - c.batches
    [] c.pc = "audit"      -> 2 * MaxBatches - c.batches
    [] c.pc = "chains"     -> MaxBatches - c.batches
    [] OTHER               -> 0

(* A statement takes one off, and nothing puts one on.                       *)
SweepAdvances ==
  \A s \in SweepId :
    /\ StatementsLeft(sweep[s]) \in 0..(4 * MaxBatches)
    /\ Batch(s) => StatementsLeft(sweep'[s]) < StatementsLeft(sweep[s])
    /\ Running(s) => StatementsLeft(sweep'[s]) <= StatementsLeft(sweep[s])

LEMMA StatementsBounded ==
  ASSUME TypeOK, NEW s \in SweepId
  PROVE  /\ StatementsLeft(sweep[s]) \in 0..(4 * MaxBatches)
         /\ Running(s) => StatementsLeft(sweep[s]) > 0
<1> USE PurgeAssumption
<1>1. CASE Running(s)
  <2>1. sweep[s].pc \in Table /\ sweep[s].batches \in 0..(MaxBatches - 1)
    BY <1>1, RunningType DEF Sweep
  <2> QED BY <2>1 DEF StatementsLeft, Table, Swept
<1>2. CASE ~Running(s)
  BY <1>2 DEF StatementsLeft, Running, Idle
<1> QED BY <1>1, <1>2

LEMMA BatchAdvances ==
  ASSUME TypeOK, NEW s \in SweepId, Batch(s)
  PROVE  /\ StatementsLeft(sweep'[s]) \in Int
         /\ StatementsLeft(sweep'[s]) < StatementsLeft(sweep[s])
         /\ \A r \in SweepId : r # s => sweep'[r] = sweep[r]
<1> USE PurgeAssumption
<1> DEFINE c == sweep[s]
<1>1. Running(s) /\ c \in Sweep
  BY RunningType DEF Batch
<1>2. c.pc \in Table /\ c.batches \in 0..(MaxBatches - 1)
  BY <1>1 DEF Sweep
<1>3. NextTable(s) \/ NextBatch(s)
  BY DEF Batch
<1>4. \/ sweep' = [sweep EXCEPT ![s] = Idle]
      \/ sweep' = [sweep EXCEPT ![s].batches = @ + 1]
      \/ \E t \in After(c.pc) : sweep' = [sweep EXCEPT ![s].pc = t, ![s].batches = 0]
  <2>1. ASSUME After(c.pc) # {} PROVE FirstOf(After(c.pc)) \in After(c.pc)
    BY <2>1, FirstOfIn DEF After
  <2> QED BY <1>3, <2>1 DEF NextBatch, NextTable, Finish
<1>5. \A r \in SweepId : r # s => sweep'[r] = sweep[r]
  BY <1>4 DEF TypeOK
<1>6. CASE sweep' = [sweep EXCEPT ![s] = Idle]
  <2>1. sweep'[s].pc = "idle"
    BY <1>6 DEF TypeOK, Idle
  <2> QED BY <1>1, <1>5, <2>1, StatementsBounded DEF StatementsLeft
<1>7. CASE sweep' = [sweep EXCEPT ![s].batches = @ + 1]
  <2>1. sweep'[s].pc = c.pc /\ sweep'[s].batches = c.batches + 1
    BY <1>1, <1>7 DEF TypeOK, Sweep
  <2> QED BY <1>2, <1>5, <2>1 DEF StatementsLeft, Table, Swept
<1>8. ASSUME NEW t \in After(c.pc), sweep' = [sweep EXCEPT ![s].pc = t, ![s].batches = 0]
      PROVE  /\ StatementsLeft(sweep'[s]) \in Int
             /\ StatementsLeft(sweep'[s]) < StatementsLeft(c)
  <2>1. sweep'[s].pc = t /\ sweep'[s].batches = 0
    BY <1>1, <1>8 DEF TypeOK, Sweep
  <2>2. t \in Table /\ c.pc \in Before(t)
    BY <1>8 DEF After
  <2>3. \/ t = "events" /\ c.pc = "deliveries"
        \/ t = "audit" /\ c.pc \in {"deliveries", "events"}
        \/ t = "chains" /\ c.pc \in {"deliveries", "events", "audit"}
    BY <2>2 DEF Before, Table, Swept
  <2> QED BY <1>2, <2>1, <2>3 DEF StatementsLeft
<1> QED BY <1>4, <1>5, <1>6, <1>7, <1>8

(* batched-delete.ts: however fast rows expire under it, a sweep runs at      *)
(* most MAX_BATCHES statements a table; ExpiredEventuallyPurged adds that     *)
(* sweeps are run.                                                            *)
THEOREM SweepIsBounded == Spec => [][SweepAdvances]_vars
<1>1. ASSUME IInv, Next PROVE SweepAdvances
  <2> USE <1>1 DEF IInv
  <2> SUFFICES ASSUME NEW s \in SweepId
               PROVE  /\ Batch(s) => StatementsLeft(sweep'[s]) < StatementsLeft(sweep[s])
                      /\ Running(s) => StatementsLeft(sweep'[s]) <= StatementsLeft(sweep[s])
    BY StatementsBounded DEF SweepAdvances
  <2>1. Batch(s) => StatementsLeft(sweep'[s]) < StatementsLeft(sweep[s])
    BY BatchAdvances
  <2>2. ASSUME Running(s) PROVE StatementsLeft(sweep'[s]) <= StatementsLeft(sweep[s])
    <3>1. StatementsLeft(sweep[s]) \in Nat
      BY StatementsBounded, PurgeAssumption
    <3>2. CASE sweep'[s] = sweep[s]
      BY <3>1, <3>2
    <3>3. CASE sweep'[s] = Idle
      <4>1. StatementsLeft(sweep'[s]) = 0
        BY <3>3 DEF StatementsLeft, Idle
      <4> QED BY <3>1, <4>1
    <3>4. ASSUME NEW r \in SweepId, Batch(r)
          PROVE  StatementsLeft(sweep'[s]) <= StatementsLeft(sweep[s])
      <4>1. CASE r = s
        BY <3>1, <3>4, <4>1, BatchAdvances
      <4>2. CASE r # s
        BY <3>2, <3>4, <4>2, BatchAdvances
      <4> QED BY <4>1, <4>2
    <3>5. ASSUME NEW r \in SweepId, BatchFails(r) PROVE sweep'[s] \in {sweep[s], Idle}
      BY <3>5 DEF BatchFails, Finish, TypeOK
    <3>6. ASSUME StartSweep PROVE sweep'[s] = sweep[s]
      BY <2>2, <3>6 DEF StartSweep, TypeOK
    <3>7. CASE TimerFires \/ Boot
      BY <3>2, <3>6, <3>7 DEF TimerFires, Boot, RunGuarded
    <3>8. CASE Crash
      BY <3>3, <3>8 DEF Crash
    <3> QED BY <1>1, <3>2, <3>3, <3>4, <3>5, <3>7, <3>8
        DEF Next, TimePasses, Insert, Enqueue, Stop, Close
  <2> QED BY <2>1, <2>2
<1>2. IInv /\ [Next]_vars => [SweepAdvances]_vars
  BY <1>1
<1> QED BY <1>2, InitIInv, NextIInv, PTL DEF Spec
=============================================================================
