---------------------------- MODULE TenantErasure ----------------------------
(***************************************************************************)
(* tenant:purge (db/queries/tenant-purge.ts, db/batched-delete.ts) for one  *)
(* tenant, against the requests that still run: authentication              *)
(* (middleware/auth.ts), the fire-and-forget audit write of a lookup        *)
(* (routes/shared.ts withAudit) and inbound notifications.                  *)
(*                                                                          *)
(* The sweep is no transaction: every statement is a step, and it may stop  *)
(* between any two.  Tables are modelled by how many rows of the tenant     *)
(* they hold.                                                               *)
(***************************************************************************)
EXTENDS Integers, FiniteSets, FiniteSetsExt

CONSTANTS
  Request,       \* bound: lookups in progress at once
  BatchSize,     \* DELETE_BATCH_SIZE
  MaxBatches,    \* MAX_BATCHES
  MaxArrivals,   \* bound: lookups and notifications
  MaxCrashes,    \* bound: sweeps that stop half-way
  InitialRows    \* rows of each table before the purge

ASSUME ErasureAssumption ==
  /\ BatchSize \in Nat \ {0} /\ MaxBatches \in Nat \ {0}
  /\ MaxArrivals \in Nat /\ MaxCrashes \in Nat /\ InitialRows \in Nat
  /\ IsFiniteSet(Request)

VARIABLES
  present,    \* the tenants row, and with it api_keys, credentials, config
  rows,       \* rows of the tenant in the large tables
  req,        \* lookups in progress
  writes,     \* audit writes handed to `void recorder.record(...)'
  inFlight,   \* lookups past authentication when the tenants row went
  pc,         \* where the sweep is
  batches,    \* batches of the current loop
  capped,     \* did a loop stop at MAX_BATCHES in this sweep?
  complete,   \* the last report's `complete'
  arrivals, crashes

vars == <<present, rows, req, writes, inFlight, pc, batches, capped, complete, arrivals, crashes>>
sweepVars == <<pc, batches, capped, complete, crashes>>
trafficVars == <<req, writes, arrivals>>

Table == {"deliveries", "events", "chains", "audit"}

TypeOK ==
  /\ present \in BOOLEAN
  /\ rows \in [Table -> Nat]
  /\ req \in [Request -> {"idle", "key", "tenant", "lookup"}]
  /\ writes \in Nat /\ inFlight \in Nat
  /\ pc \in {"idle", "deliveries", "events", "chains", "tenant", "audit", "verify", "done"}
  /\ batches \in 0..(MaxBatches - 1) /\ capped \in BOOLEAN /\ complete \in BOOLEAN
  /\ arrivals \in Nat /\ crashes \in Nat

Init ==
  /\ present = TRUE
  /\ rows = [t \in Table |-> InitialRows]
  /\ req = [r \in Request |-> "idle"]
  /\ writes = 0 /\ inFlight = 0
  /\ pc = "idle" /\ batches = 0 /\ capped = FALSE /\ complete = FALSE
  /\ arrivals = 0 /\ crashes = 0

-----------------------------------------------------------------------------
(* Traffic.                                                                  *)

Arrive(r) ==
  /\ arrivals < MaxArrivals
  /\ req[r] = "idle"
  /\ req' = [req EXCEPT ![r] = "key"]
  /\ arrivals' = arrivals + 1
  /\ UNCHANGED <<present, rows, writes, inFlight, sweepVars>>

(* findActiveKeyByHash, then getTenantById: either missing is a 401.         *)
Authenticate(r) ==
  /\ req[r] \in {"key", "tenant"}
  /\ req' = [req EXCEPT ![r] = IF ~present THEN "idle"
                               ELSE IF @ = "key" THEN "tenant" ELSE "lookup"]
  /\ UNCHANGED <<present, rows, writes, inFlight, arrivals, sweepVars>>

(* withAudit: the answer goes out, the audit write is left running.          *)
Answer(r) ==
  /\ req[r] = "lookup"
  /\ req' = [req EXCEPT ![r] = "idle"]
  /\ writes' = writes + 1
  /\ UNCHANGED <<present, rows, inFlight, arrivals, sweepVars>>

(* validation_audit has no foreign key: the insert succeeds even when the    *)
(* tenant is gone.  A failed insert is logged and dropped.                   *)
WriteAudit(stored) ==
  /\ writes > 0
  /\ writes' = writes - 1
  /\ rows' = [rows EXCEPT !["audit"] = @ + (IF stored THEN 1 ELSE 0)]
  /\ UNCHANGED <<present, req, inFlight, arrivals, sweepVars>>

(* An inbound notification; the foreign keys need the tenants row.           *)
Notify(t) ==
  /\ arrivals < MaxArrivals
  /\ present
  /\ rows' = [rows EXCEPT !["events"] = IF t = "events" THEN @ + 1 ELSE @,
                          !["chains"] = IF t = "chains" THEN @ + 1 ELSE @]
  /\ arrivals' = arrivals + 1
  /\ UNCHANGED <<present, req, writes, inFlight, sweepVars>>

(* The delivery of an event that has none yet.                               *)
EnqueueDelivery ==
  /\ present
  /\ rows["deliveries"] < rows["events"]
  /\ rows' = [rows EXCEPT !["deliveries"] = @ + 1]
  /\ UNCHANGED <<present, trafficVars, inFlight, sweepVars>>

-----------------------------------------------------------------------------
(* The sweep.                                                                *)

NextPhaseAuditFirst(p) ==
  CASE p = "deliveries" -> "events" [] p = "events" -> "chains" [] p = "chains" -> "audit"
    [] p = "audit" -> "tenant" [] p = "tenant" -> "verify"

(* The order of purgeTenantData: the audit rows go after the tenant row.     *)
NextPhase(p) ==
  CASE p = "deliveries" -> "events" [] p = "events" -> "chains" [] p = "chains" -> "tenant"
    [] p = "tenant" -> "audit" [] p = "audit" -> "verify"

StartPurgeOfExisting ==
  /\ pc = "idle" \/ (pc = "done" /\ ~complete)
  /\ present
  /\ pc' = "deliveries" /\ batches' = 0 /\ capped' = FALSE
  /\ UNCHANGED <<present, rows, trafficVars, inFlight, complete, crashes>>

(* The command, or the re-run its report asks for; the tenant may be gone.   *)
StartPurge ==
  /\ pc = "idle" \/ (pc = "done" /\ ~complete)
  /\ pc' = "deliveries" /\ batches' = 0 /\ capped' = FALSE
  /\ UNCHANGED <<present, rows, trafficVars, inFlight, complete, crashes>>

(* One statement of deleteInBatches: at most BatchSize rows, until a short   *)
(* batch or the cap.  Deleting events cascades to their deliveries.          *)
DeletedBatch(t) == Min({BatchSize, rows[t]})

LoopEnds(t) == DeletedBatch(t) < BatchSize \/ batches + 1 = MaxBatches

AfterDelete(t, k) ==
  IF t # "events" THEN {[rows EXCEPT ![t] = @ - k]}
  ELSE {[rows EXCEPT !["events"] = @ - k, !["deliveries"] = d] :
          d \in {d \in 0..rows["deliveries"] :
                   d >= rows["deliveries"] - k /\ d <= rows["events"] - k}}

DeleteBatch(t) ==
  /\ pc = t
  /\ rows' \in AfterDelete(t, DeletedBatch(t))
  /\ IF LoopEnds(t)
     THEN /\ pc' = NextPhase(t) /\ batches' = 0
          /\ capped' = (capped \/ DeletedBatch(t) = BatchSize)
     ELSE batches' = batches + 1 /\ UNCHANGED <<pc, capped>>
  /\ UNCHANGED <<present, trafficVars, inFlight, complete, crashes>>

DeleteChains ==
  /\ pc = "chains"
  /\ rows' = [rows EXCEPT !["chains"] = 0]
  /\ pc' = NextPhase("chains")
  /\ UNCHANGED <<present, trafficVars, inFlight, batches, capped, complete, crashes>>

(* The tenants row, cascading to everything but validation_audit.            *)
DeleteTenantRow ==
  /\ pc = "tenant"
  /\ present' = FALSE
  /\ rows' = [t \in Table |-> IF t = "audit" THEN rows[t] ELSE 0]
  /\ inFlight' = IF present
                 THEN writes + Cardinality({r \in Request : req[r] = "lookup"})
                 ELSE inFlight
  /\ pc' = NextPhase("tenant")
  /\ UNCHANGED <<trafficVars, batches, capped, complete, crashes>>

Remaining == rows["deliveries"] + rows["events"] + rows["chains"] + rows["audit"]
             + (IF present THEN 1 ELSE 0)

VerifyBlindly ==
  /\ pc = "verify"
  /\ complete' = TRUE
  /\ pc' = "done"
  /\ UNCHANGED <<present, rows, trafficVars, inFlight, batches, capped, crashes>>

(* countAll again: nothing but the audit count can still change by now.      *)
Verify ==
  /\ pc = "verify"
  /\ complete' = (Remaining = 0)
  /\ pc' = "done"
  /\ UNCHANGED <<present, rows, trafficVars, inFlight, batches, capped, crashes>>

(* A statement fails or the command is killed.                               *)
Interrupt ==
  /\ pc \notin {"idle", "done"}
  /\ crashes < MaxCrashes
  /\ pc' = "idle" /\ batches' = 0 /\ crashes' = crashes + 1
  /\ UNCHANGED <<present, rows, trafficVars, inFlight, capped, complete>>

-----------------------------------------------------------------------------
Lookup(r) == Arrive(r) \/ Authenticate(r) \/ Answer(r)

Sweep ==
  \/ StartPurge
  \/ \E t \in {"deliveries", "events", "audit"} : DeleteBatch(t)
  \/ DeleteChains \/ DeleteTenantRow \/ Verify

Next ==
  \/ \E r \in Request : Lookup(r)
  \/ \E stored \in BOOLEAN : WriteAudit(stored)
  \/ \E t \in {"events", "chains"} : Notify(t)
  \/ EnqueueDelivery
  \/ Sweep
  \/ Interrupt

Spec == Init /\ [][Next]_vars

(* Requests and their audit writes run to their end; the operator re-runs    *)
(* the command until it reports complete, and a started sweep proceeds.      *)
FairSpec ==
  /\ Spec
  /\ \A r \in Request : WF_vars(Authenticate(r) \/ Answer(r))
  /\ WF_vars(\E stored \in BOOLEAN : WriteAudit(stored))
  /\ WF_vars(Sweep)

-----------------------------------------------------------------------------
(* Properties.                                                               *)

(* tenant-purge.ts:22-33: deleting the tenants row first leaves, once the    *)
(* audit loop has run to a short batch, no audit row but those of lookups    *)
(* that had authenticated before.                                            *)
OnlyInFlightSurvive ==
  (pc = "verify" /\ ~capped) => rows["audit"] <= inFlight

(* tenant-purge.ts:92-102: `complete' goes stale only by a late audit write; *)
(* the tables with a foreign key stay empty for good.                        *)
CompleteMeansErased ==
  complete => /\ ~present
              /\ \A t \in Table \ {"audit"} : rows[t] = 0
              /\ rows["audit"] <= inFlight

(* Re-running the command ends with a complete report, whatever interrupted  *)
(* it, however large the backlog against MAX_BATCHES.                        *)
EventuallyComplete == <>(pc = "done" /\ complete)

=============================================================================
