---------------------------- MODULE RetentionPurge ----------------------------
(***************************************************************************)
(* The TTL sweep: services/retention/purge.ts over db/batched-delete.ts,    *)
(* started and stopped by main.ts.                                          *)
(*                                                                          *)
(* A sweep is one DELETE statement per step.  Rows keep arriving, time      *)
(* passes, a statement may fail and the process may stop between any two.   *)
(***************************************************************************)
EXTENDS Integers, FiniteSets, FiniteSetsExt

CONSTANTS
  RowId,        \* bound: rows of each table at one time
  Slots,        \* bound: the rows of each table in this instance
  Window,       \* RetentionPolicy: days to keep each table, or Keep (null)
  Keep,
  BatchSize,    \* DELETE_BATCH_SIZE
  MaxBatches,   \* MAX_BATCHES
  MaxFaults,    \* bound: failing DELETEs
  MaxRestarts,  \* bound: shutdowns and crashes
  MaxClock      \* bound: time, in days

Swept == {"events", "audit", "chains"}
Table == Swept \cup {"deliveries"}
NoRow == -1

ASSUME PurgeAssumption ==
  /\ Keep \notin Nat
  /\ Window \in [Swept -> (Nat \ {0}) \cup {Keep}]    \* config.ts: at least one day
  /\ BatchSize \in Nat \ {0} /\ MaxBatches \in Nat \ {0}
  /\ Slots \in [Swept -> SUBSET RowId]
  /\ MaxFaults \in Nat /\ MaxRestarts \in Nat /\ MaxClock \in Nat

VARIABLES
  clock,     \* now, in days
  rows,      \* created_at / received_at of each row, or NoRow; a delivery has its event's
  process,   \* the server process; "down" has closed the pool
  timer,     \* the setInterval
  inFlight,  \* inFlight # null
  sweep,     \* sweeps running: at most two slots
  faults, restarts

vars == <<clock, rows, process, timer, inFlight, sweep, faults, restarts>>
processVars == <<process, timer, restarts>>

SweepId == {1, 2}
Idle == [pc |-> "idle"]
Sweep == [pc : Table, now : Nat, batches : 0..(MaxBatches - 1)]

TypeOK ==
  /\ clock \in Nat
  /\ rows \in [Table -> [RowId -> Nat \cup {NoRow}]]
  /\ process \in {"up", "stopping", "down"}
  /\ timer \in BOOLEAN /\ inFlight \in BOOLEAN
  /\ sweep \in [SweepId -> Sweep \cup {Idle}]
  /\ faults \in Nat /\ restarts \in Nat

Init ==
  /\ clock = 0
  /\ rows = [t \in Table |-> [i \in RowId |-> NoRow]]
  /\ process = "down" /\ timer = FALSE /\ inFlight = FALSE
  /\ sweep = [s \in SweepId |-> Idle]
  /\ faults = 0 /\ restarts = 0

Running(s) == sweep[s] # Idle

-----------------------------------------------------------------------------
(* Time, and the rows the rest of the system writes.                         *)

TimePasses ==
  /\ clock < MaxClock
  /\ clock' = clock + 1
  /\ UNCHANGED <<rows, processVars, inFlight, sweep, faults>>

Insert(t, i) ==
  /\ i \in Slots[t]
  /\ process = "up"
  /\ rows[t][i] = NoRow
  /\ rows' = [rows EXCEPT ![t][i] = clock]
  /\ UNCHANGED <<clock, processVars, inFlight, sweep, faults>>

(* The delivery of an event just received (Ingest); a sweep finds it by the  *)
(* join on the event's received_at.                                          *)
Enqueue(i) ==
  /\ process = "up"
  /\ rows["events"][i] = clock
  /\ rows["deliveries"][i] = NoRow
  /\ rows' = [rows EXCEPT !["deliveries"][i] = rows["events"][i]]
  /\ UNCHANGED <<clock, processVars, inFlight, sweep, faults>>

-----------------------------------------------------------------------------
(* purgeOnce: deliveries and events, then audit, then chains; a table whose  *)
(* window is null is left out.                                               *)

WindowOf(t) == Window[IF t = "deliveries" THEN "events" ELSE t]

Before(t) ==
  CASE t = "deliveries" -> {} [] t = "events" -> {"deliveries"}
    [] t = "audit" -> {"deliveries", "events"} [] t = "chains" -> Table \ {"chains"}

(* Tables with a window, to sweep after t.                                   *)
After(t) == {u \in Table : t \in Before(u) /\ WindowOf(u) # Keep}

(* policyIsActive                                                            *)
PolicyIsActive == \E t \in Swept : Window[t] # Keep

FirstOf(T) == CHOOSE t \in T : Before(t) \cap T = {}
FirstTable == FirstOf({t \in Table : WindowOf(t) # Keep})

ExpiredInclusive(t, i, now) ==
  /\ WindowOf(t) # Keep
  /\ rows[t][i] # NoRow
  /\ rows[t][i] <= now - WindowOf(t)

(* created_at < cutoff(days, now), strictly.                                 *)
Expired(t, i, now) ==
  /\ WindowOf(t) # Keep
  /\ rows[t][i] # NoRow
  /\ rows[t][i] < now - WindowOf(t)

Doomed(t, now) == {i \in RowId : Expired(t, i, now)}

DeleteRowsOnly(t, D) ==
  rows' = [rows EXCEPT ![t] = [i \in RowId |-> IF i \in D THEN NoRow ELSE rows[t][i]]]

(* DELETE of D; deleting an event cascades to its delivery.                  *)
Delete(t, D) ==
  rows' = [u \in Table |-> [i \in RowId |->
             IF i \in D /\ (u = t \/ (t = "events" /\ u = "deliveries"))
             THEN NoRow ELSE rows[u][i]]]

(* sweep() settles, resolved or caught, and `finally' clears inFlight.       *)
Finish(s) ==
  /\ sweep' = [sweep EXCEPT ![s] = Idle]
  /\ inFlight' = FALSE

NextTableStops(s) == Finish(s)

(* The loop of table t has ended: on to the next, or done.                   *)
NextTable(s) ==
  LET T == After(sweep[s].pc)
  IN IF T = {} THEN Finish(s)
     ELSE /\ sweep' = [sweep EXCEPT ![s].pc = FirstOf(T), ![s].batches = 0]
          /\ UNCHANGED inFlight

(* One turn of deleteInBatches: any BatchSize of the expired rows; a short   *)
(* batch or the cap ends the loop.                                           *)
NextBatch(s) ==
  IF sweep[s].batches + 1 = MaxBatches THEN NextTable(s)
  ELSE /\ sweep' = [sweep EXCEPT ![s].batches = @ + 1]
       /\ UNCHANGED inFlight

Batch(s) ==
  LET t == sweep[s].pc
      doomed == Doomed(t, sweep[s].now)
  IN /\ Running(s)
     /\ \E D \in SUBSET doomed :
          /\ Cardinality(D) = Min({BatchSize, Cardinality(doomed)})
          /\ Delete(t, D)
          /\ IF Cardinality(D) < BatchSize THEN NextTable(s) ELSE NextBatch(s)
     /\ UNCHANGED <<clock, processVars, faults>>

(* The statement throws: purgeOnce rejects, sweep() logs and returns null.   *)
BatchFails(s) ==
  /\ Running(s)
  /\ faults < MaxFaults /\ faults' = faults + 1
  /\ Finish(s)
  /\ UNCHANGED <<clock, rows, processVars>>

-----------------------------------------------------------------------------
(* The timer and the process.                                                *)

StartSweep ==
  \E s \in SweepId :
    /\ ~Running(s)
    /\ sweep' = [sweep EXCEPT ![s] = [pc |-> FirstTable, now |-> clock, batches |-> 0]]
    /\ inFlight' = TRUE

RunUnguarded == StartSweep

(* runGuarded: a sweep in flight is returned, not started again.             *)
RunGuarded == IF inFlight THEN UNCHANGED <<sweep, inFlight>> ELSE StartSweep

TimerFires ==
  /\ timer
  /\ RunGuarded
  /\ UNCHANGED <<clock, rows, processVars, faults>>

(* runServer: purger.start() arms the timer and sweeps at once, if any       *)
(* window is set.                                                            *)
Boot ==
  /\ process = "down"
  /\ process' = "up"
  /\ IF PolicyIsActive
     THEN timer' = TRUE /\ RunGuarded
     ELSE UNCHANGED <<timer, sweep, inFlight>>
  /\ UNCHANGED <<clock, rows, faults, restarts>>

(* shutdown: purger.stop() clears the interval and awaits inFlight ...       *)
Stop ==
  /\ process = "up"
  /\ restarts < MaxRestarts
  /\ restarts' = restarts + 1
  /\ process' = "stopping" /\ timer' = FALSE
  /\ UNCHANGED <<clock, rows, inFlight, sweep, faults>>

CloseAtOnce ==
  /\ process = "stopping"
  /\ process' = "down"
  /\ UNCHANGED <<clock, rows, timer, inFlight, sweep, faults, restarts>>

(* ... and only then is the pool closed.                                     *)
Close ==
  /\ process = "stopping"
  /\ ~inFlight
  /\ process' = "down"
  /\ UNCHANGED <<clock, rows, timer, inFlight, sweep, faults, restarts>>

Crash ==
  /\ process # "down"
  /\ restarts < MaxRestarts
  /\ restarts' = restarts + 1
  /\ process' = "down" /\ timer' = FALSE /\ inFlight' = FALSE
  /\ sweep' = [s \in SweepId |-> Idle]
  /\ UNCHANGED <<clock, rows, faults>>

-----------------------------------------------------------------------------
Next ==
  \/ TimePasses
  \/ \E t \in Swept, i \in RowId : Insert(t, i)
  \/ \E i \in RowId : Enqueue(i)
  \/ \E s \in SweepId : Batch(s) \/ BatchFails(s)
  \/ TimerFires
  \/ Boot \/ Stop \/ Close \/ Crash

Spec == Init /\ [][Next]_vars

(* The interval keeps firing, statements complete, shutdown completes and    *)
(* the platform restarts the process.                                        *)
Fairness ==
  /\ WF_vars(TimerFires)
  /\ \A s \in SweepId : WF_vars(Batch(s))
  /\ WF_vars(Close) /\ WF_vars(Boot)

FairSpec == Spec /\ Fairness

-----------------------------------------------------------------------------
(* Properties.                                                               *)

(* purge.ts:252: sweeps never overlap, timer, boot and restart included.     *)
OneSweep == \A s1, s2 \in SweepId : Running(s1) /\ Running(s2) => s1 = s2

(* main.ts:166-185: when the pool is closed no sweep is left to query it.    *)
ClosedMeansQuiet == process = "down" => \A s \in SweepId : ~Running(s)

(* A sweep uses the cutoff of the moment it began; whatever arrives while it  *)
(* runs, and through the cascade too, a row goes only when it is older than   *)
(* its window now, and never from a table that is kept forever.               *)
OnlyExpiredDeleted ==
  [][\A t \in Table, i \in RowId :
       (rows[t][i] # NoRow /\ rows'[t][i] = NoRow) =>
         WindowOf(t) # Keep /\ rows[t][i] < clock - WindowOf(t)]_vars

(* A delivery never outlives its event, so the dispatcher finds the event of  *)
(* what it claims.                                                            *)
NoOrphanDelivery ==
  \A i \in RowId : rows["deliveries"][i] # NoRow => rows["events"][i] # NoRow

(* An expired row goes in the end, through failed sweeps, capped sweeps,     *)
(* shutdowns and crashes: a sweep that failed or was cut is followed by one  *)
(* that begins again at the first table.                                     *)
ExpiredEventuallyPurged ==
  \A t \in Table, i \in RowId : Expired(t, i, clock) ~> ~Expired(t, i, clock)
=============================================================================
