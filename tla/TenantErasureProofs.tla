------------------------- MODULE TenantErasureProofs -------------------------
(***************************************************************************)
(* What tenant:purge leaves behind, for every backlog, batch size, cap and  *)
(* number of lookups in progress.                                           *)
(*                                                                          *)
(* An audit row written after the tenants row went comes from a lookup      *)
(* that had authenticated before.  The invariant counts them where they     *)
(* are: still looking up, waiting to be written, or in the table again.     *)
(***************************************************************************)
EXTENDS TenantErasure, FiniteSetTheorems, TLAPS

Lookups == {r \in Request : req[r] = "lookup"}

(* Lookups that may still write an audit row.                                *)
Pending == writes + Cardinality(Lookups)

(* The tenants row took the rows with a foreign key along, and nobody        *)
(* authenticates any more.                                                   *)
GoneForGood ==
  ~present => /\ \A t \in Table \ {"audit"} : rows[t] = 0
              /\ Pending <= inFlight

AuditAfterTenant == pc \in {"audit", "verify"} \/ complete => ~present

(* Past a short batch every audit row left was in flight.                    *)
Accounted == (pc = "verify" /\ ~capped) \/ complete => rows["audit"] + Pending <= inFlight

CompleteIsLast == complete => pc = "done"

IInv ==
  /\ TypeOK
  /\ GoneForGood
  /\ AuditAfterTenant
  /\ Accounted
  /\ CompleteIsLast

LEMMA PendingNat ==
  ASSUME TypeOK
  PROVE  IsFiniteSet(Lookups) /\ Cardinality(Lookups) \in Nat /\ Pending \in Nat
<1>1. IsFiniteSet(Lookups)
  BY ErasureAssumption, FS_Subset DEF Lookups
<1>2. Cardinality(Lookups) \in Nat
  BY <1>1, FS_CardinalityType
<1> QED
  BY <1>1, <1>2 DEF Pending, TypeOK

(* A batch deletes BatchSize rows, or all there are if they are fewer.       *)
LEMMA BatchDeletes ==
  ASSUME TypeOK, NEW t \in Table
  PROVE  /\ DeletedBatch(t) \in Nat
         /\ DeletedBatch(t) <= rows[t]
         /\ DeletedBatch(t) # BatchSize => DeletedBatch(t) = rows[t]
<1>1. rows[t] \in Nat /\ BatchSize \in Nat
  BY ErasureAssumption DEF TypeOK
<1>2. \A a, b \in Nat : Min({a, b}) \in {a, b} /\ Min({a, b}) <= a /\ Min({a, b}) <= b
  <2> TAKE a, b \in Nat
  <2>1. \E x \in {a, b} : \A y \in {a, b} : x <= y
    <3>1. CASE a <= b
      BY <3>1
    <3>2. CASE b <= a
      BY <3>2
    <3> QED BY <3>1, <3>2
  <2> QED
    BY <2>1 DEF Min
<1> QED
  BY <1>1, <1>2 DEF DeletedBatch

(* The rows a batch leaves.                                                  *)
LEMMA BatchLeaves ==
  ASSUME TypeOK, NEW t \in {"deliveries", "events", "audit"},
         rows' \in AfterDelete(t, DeletedBatch(t))
  PROVE  /\ rows' \in [Table -> Nat]
         /\ \A u \in Table : rows'[u] <= rows[u]
         /\ t # "audit" => rows'["audit"] = rows["audit"]
         /\ t = "audit" /\ DeletedBatch(t) # BatchSize => rows'["audit"] = 0
<1> DEFINE k == DeletedBatch(t)
<1>1. t \in Table /\ "events" \in Table /\ "deliveries" \in Table /\ "audit" \in Table
  BY DEF Table
<1>2. k \in Nat /\ k <= rows[t] /\ (k # BatchSize => k = rows[t])
  BY <1>1, BatchDeletes
<1>3. rows \in [Table -> Nat] /\ rows[t] \in Nat /\ rows["deliveries"] \in Nat
  BY <1>1 DEF TypeOK
<1> HIDE DEF k
<1>4. rows' \in AfterDelete(t, k)
  BY DEF k
<1>5. CASE t # "events"
  <2>1. rows' = [rows EXCEPT ![t] = @ - k]
    BY <1>4, <1>5 DEF AfterDelete
  <2>2. rows[t] - k \in Nat /\ rows[t] - k <= rows[t]
    BY <1>2, <1>3
  <2>3. rows'[t] = rows[t] - k /\ \A u \in Table : u # t => rows'[u] = rows[u]
    BY <1>1, <1>3, <2>1
  <2>4. rows' \in [Table -> Nat]
    BY <1>1, <1>3, <2>1, <2>2
  <2>5. \A u \in Table : rows'[u] <= rows[u]
    BY <1>3, <2>2, <2>3
  <2>6. t = "audit" /\ k # BatchSize => rows'["audit"] = 0
    BY <1>2, <1>3, <2>3
  <2> QED
    BY <1>1, <2>3, <2>4, <2>5, <2>6 DEF k
<1>6. CASE t = "events"
  <2>1. PICK d \in 0..rows["deliveries"] :
          rows' = [rows EXCEPT !["events"] = @ - k, !["deliveries"] = d]
    BY <1>4, <1>6 DEF AfterDelete
  <2>2. d \in Nat /\ d <= rows["deliveries"] /\ rows["events"] - k \in Nat
        /\ rows["events"] - k <= rows["events"]
    BY <1>2, <1>3, <1>6
  <2>3. /\ rows'["events"] = rows["events"] - k /\ rows'["deliveries"] = d
        /\ \A u \in Table \ {"events", "deliveries"} : rows'[u] = rows[u]
    BY <1>1, <1>3, <2>1
  <2>4. rows' \in [Table -> Nat]
    BY <1>1, <1>3, <2>1, <2>2
  <2> QED
    BY <1>1, <1>3, <1>6, <2>2, <2>3, <2>4
<1> QED
  BY <1>5, <1>6

-----------------------------------------------------------------------------
LEMMA InitIInv == Init => IInv
<1> SUFFICES ASSUME Init PROVE IInv
  OBVIOUS
<1>1. TypeOK
  <2>1. rows \in [Table -> Nat] /\ batches \in 0..(MaxBatches - 1)
    BY ErasureAssumption DEF Init
  <2> QED BY <2>1 DEF Init, TypeOK
<1>2. present /\ ~complete /\ pc = "idle"
  BY DEF Init
<1> QED
  BY <1>1, <1>2 DEF IInv, GoneForGood, AuditAfterTenant, Accounted, CompleteIsLast

(* A request's step leaves no more of them pending once the tenant is gone.  *)
LEMMA LookupPending ==
  ASSUME TypeOK, NEW r \in Request, Lookup(r), ~present
  PROVE  Pending' <= Pending
<1>0. req \in [Request -> {"idle", "key", "tenant", "lookup"}] /\ writes \in Nat
  BY DEF TypeOK
<1>1. CASE Answer(r)
  <2>1. r \in Lookups /\ req' = [req EXCEPT ![r] = "idle"] /\ writes' = writes + 1
    BY <1>1 DEF Answer, Lookups
  <2>2. Lookups' = Lookups \ {r}
    BY <1>0, <2>1 DEF Lookups
  <2>3. Cardinality(Lookups') = Cardinality(Lookups) - 1
    BY <2>1, <2>2, PendingNat, FS_RemoveElement
  <2> QED
    BY <1>0, <2>1, <2>3, PendingNat DEF Pending
<1>2. CASE Arrive(r) \/ Authenticate(r)
  <2>1. Lookups' = Lookups /\ writes' = writes
    BY <1>0, <1>2 DEF Arrive, Authenticate, Lookups
  <2> QED
    BY <2>1, PendingNat DEF Pending
<1> QED
  BY <1>1, <1>2 DEF Lookup

LEMMA NextTypeOK == TypeOK /\ [Next]_vars => TypeOK'
<1> SUFFICES ASSUME TypeOK, [Next]_vars PROVE TypeOK'
  OBVIOUS
<1> USE DEF TypeOK
<1>0. \A t \in {"deliveries", "events", "chains", "audit"} : t \in Table
  BY DEF Table
<1>1. CASE UNCHANGED vars
  BY <1>1 DEF vars
<1>2. ASSUME NEW r \in Request, Lookup(r) PROVE TypeOK'
  BY <1>2 DEF Lookup, Arrive, Authenticate, Answer, sweepVars
<1>3. ASSUME NEW stored \in BOOLEAN, WriteAudit(stored) PROVE TypeOK'
  <2>1. rows' \in [Table -> Nat] /\ writes' \in Nat
    BY <1>0, <1>3 DEF WriteAudit
  <2> QED BY <1>3, <2>1 DEF WriteAudit, sweepVars
<1>4. ASSUME NEW t \in {"events", "chains"}, Notify(t) PROVE TypeOK'
  <2>1. rows' \in [Table -> Nat] /\ arrivals' \in Nat
    BY <1>0, <1>4 DEF Notify
  <2> QED BY <1>4, <2>1 DEF Notify, sweepVars
<1>5. CASE EnqueueDelivery
  <2>1. rows' \in [Table -> Nat]
    BY <1>0, <1>5 DEF EnqueueDelivery
  <2> QED BY <1>5, <2>1 DEF EnqueueDelivery, sweepVars, trafficVars
<1>6. CASE StartPurge \/ Verify \/ Interrupt
  <2>1. batches' \in 0..(MaxBatches - 1) /\ crashes' \in Nat
    BY <1>6, ErasureAssumption DEF StartPurge, Verify, Interrupt
  <2>2. /\ UNCHANGED <<present, rows, req, writes, inFlight, arrivals>>
        /\ pc' \in {"deliveries", "done", "idle"}
        /\ capped' \in BOOLEAN /\ complete' \in BOOLEAN
    BY <1>6 DEF StartPurge, Verify, Interrupt, trafficVars
  <2> QED BY <2>1, <2>2
<1>7. ASSUME NEW t \in {"deliveries", "events", "audit"}, DeleteBatch(t) PROVE TypeOK'
  <2>1. rows' \in [Table -> Nat]
    BY <1>7, BatchLeaves DEF DeleteBatch
  <2>2. NextPhase(t) \in {"events", "chains", "verify"}
    BY DEF NextPhase
  <2>3. batches' \in 0..(MaxBatches - 1)
    <3>1. batches' = 0 \/ (batches' = batches + 1 /\ batches + 1 # MaxBatches)
      BY <1>7 DEF DeleteBatch, LoopEnds
    <3>2. MaxBatches \in Nat /\ batches \in 0..(MaxBatches - 1)
      BY ErasureAssumption
    <3> QED BY <3>1, <3>2
  <2> QED BY <1>7, <2>1, <2>2, <2>3 DEF DeleteBatch, trafficVars
<1>8. CASE DeleteChains
  <2>1. rows' \in [Table -> Nat] /\ pc' = "tenant"
    BY <1>0, <1>8 DEF DeleteChains, NextPhase
  <2> QED BY <1>8, <2>1 DEF DeleteChains, trafficVars
<1>9. CASE DeleteTenantRow
  <2>1. rows' \in [Table -> Nat] /\ pc' = "audit"
    BY <1>0, <1>9 DEF DeleteTenantRow, NextPhase
  <2>2. inFlight' \in Nat
    BY <1>9, PendingNat DEF DeleteTenantRow, Pending, Lookups
  <2> QED BY <1>9, <2>1, <2>2 DEF DeleteTenantRow, trafficVars
<1> QED
  BY <1>1, <1>2, <1>3, <1>4, <1>5, <1>6, <1>7, <1>8, <1>9 DEF Next, Sweep

LEMMA NextIInv == IInv /\ [Next]_vars => IInv'
<1> SUFFICES ASSUME IInv, [Next]_vars PROVE IInv'
  OBVIOUS
<1>0. /\ TypeOK /\ TypeOK' /\ GoneForGood /\ AuditAfterTenant /\ Accounted /\ CompleteIsLast
      /\ Pending \in Nat /\ Pending' \in Nat
  <2>1. TypeOK /\ TypeOK'
    BY NextTypeOK DEF IInv
  <2>2. Pending \in Nat
    BY <2>1, PendingNat
  <2>3. Pending' \in Nat
    <3>1. IsFiniteSet(Lookups')
      BY ErasureAssumption, FS_Subset DEF Lookups
    <3>2. Cardinality(Lookups') \in Nat
      BY <3>1, FS_CardinalityType
    <3> QED BY <2>1, <3>2 DEF Pending, TypeOK
  <2> QED BY <2>1, <2>2, <2>3 DEF IInv
<1>00. /\ \A t \in Table : rows[t] \in Nat /\ rows'[t] \in Nat
       /\ inFlight \in Nat /\ inFlight' \in Nat
       /\ "audit" \in Table /\ "events" \in Table /\ "chains" \in Table /\ "deliveries" \in Table
       /\ writes \in Nat
  BY <1>0 DEF TypeOK, Table
<1>1. CASE UNCHANGED vars
  <2>1. Pending' = Pending
    BY <1>1 DEF vars, Pending, Lookups
  <2> QED
    BY <1>0, <1>1, <2>1 DEF vars, IInv, GoneForGood, AuditAfterTenant, Accounted, CompleteIsLast
<1>2. ASSUME NEW r \in Request, Lookup(r) PROVE IInv'
  <2>1. UNCHANGED <<present, rows, inFlight, pc, capped, complete>>
    BY <1>2 DEF Lookup, Arrive, Authenticate, Answer, sweepVars
  <2>2. ~present => Pending' <= Pending
    BY <1>0, <1>2, LookupPending
  <2> QED
    BY <1>0, <1>00, <2>1, <2>2
       DEF IInv, GoneForGood, AuditAfterTenant, Accounted, CompleteIsLast
<1>3. ASSUME NEW stored \in BOOLEAN, WriteAudit(stored) PROVE IInv'
  <2>1. UNCHANGED <<present, inFlight, pc, capped, complete>> /\ writes' = writes - 1
    BY <1>3 DEF WriteAudit, sweepVars
  <2>2. Pending' = Pending - 1
    <3>1. Lookups' = Lookups
      BY <1>3 DEF WriteAudit, Lookups
    <3> QED BY <1>0, <1>00, <2>1, <3>1, PendingNat DEF Pending
  <2>3. /\ rows'["audit"] <= rows["audit"] + 1
        /\ \A t \in Table \ {"audit"} : rows'[t] = rows[t]
    BY <1>0, <1>00, <1>3 DEF WriteAudit, TypeOK
  <2> QED
    BY <1>0, <1>00, <2>1, <2>2, <2>3
       DEF IInv, GoneForGood, AuditAfterTenant, Accounted, CompleteIsLast
<1>4. ASSUME present, UNCHANGED <<present, req, writes, inFlight, pc, capped, complete>>
      PROVE  IInv'
  BY <1>0, <1>4 DEF IInv, GoneForGood, AuditAfterTenant, Accounted, CompleteIsLast
<1>5. CASE (\E t \in {"events", "chains"} : Notify(t)) \/ EnqueueDelivery
  BY <1>4, <1>5 DEF Notify, EnqueueDelivery, sweepVars, trafficVars
<1>6. CASE StartPurge \/ Interrupt
  <2>1. UNCHANGED <<present, rows, req, writes, inFlight, complete>> /\ pc' \in {"deliveries", "idle"}
    BY <1>6 DEF StartPurge, Interrupt, trafficVars
  <2>2. ~complete
    BY <1>0, <1>6 DEF StartPurge, Interrupt, CompleteIsLast
  <2>3. Pending' = Pending
    BY <2>1 DEF Pending, Lookups
  <2> QED
    BY <1>0, <2>1, <2>2, <2>3 DEF IInv, GoneForGood, AuditAfterTenant, Accounted, CompleteIsLast
<1>7. ASSUME NEW t \in {"deliveries", "events", "audit"}, DeleteBatch(t) PROVE IInv'
  <2>1. /\ UNCHANGED <<present, req, writes, inFlight, complete>> /\ pc = t
        /\ Pending' = Pending
    BY <1>7 DEF DeleteBatch, trafficVars, Pending, Lookups
  <2>2. /\ \A u \in Table : rows'[u] <= rows[u]
        /\ t # "audit" => rows'["audit"] = rows["audit"]
        /\ t = "audit" /\ DeletedBatch(t) # BatchSize => rows'["audit"] = 0
    BY <1>0, <1>7, BatchLeaves DEF DeleteBatch
  <2>3. ~complete
    BY <1>0, <2>1 DEF CompleteIsLast
  <2>4. pc' \in {"audit", "verify"} => t = "audit"
    BY <1>7, <2>1 DEF DeleteBatch, NextPhase
  <2>5. pc' = "verify" /\ ~capped' => DeletedBatch(t) # BatchSize
    BY <1>7, <2>1 DEF DeleteBatch
  <2>6. GoneForGood'
    BY <1>0, <1>00, <2>1, <2>2 DEF GoneForGood
  <2>7. AuditAfterTenant' /\ CompleteIsLast'
    BY <1>0, <2>1, <2>3, <2>4 DEF AuditAfterTenant, CompleteIsLast
  <2>8. Accounted'
    BY <1>0, <1>00, <2>1, <2>2, <2>3, <2>4, <2>5 DEF Accounted, GoneForGood, AuditAfterTenant
  <2> QED
    BY <1>0, <2>6, <2>7, <2>8 DEF IInv
<1>8. CASE DeleteChains
  <2>1. /\ UNCHANGED <<present, req, writes, inFlight, complete>> /\ pc' = "tenant"
        /\ rows' = [rows EXCEPT !["chains"] = 0] /\ Pending' = Pending
    BY <1>8 DEF DeleteChains, trafficVars, Pending, Lookups, NextPhase
  <2>2. ~complete
    BY <1>0, <1>8 DEF DeleteChains, CompleteIsLast
  <2>3. GoneForGood'
    BY <1>0, <1>00, <2>1 DEF GoneForGood, TypeOK
  <2> QED
    BY <1>0, <2>1, <2>2, <2>3 DEF IInv, AuditAfterTenant, Accounted, CompleteIsLast
<1>9. CASE DeleteTenantRow
  <2>1. /\ UNCHANGED <<req, writes, complete>> /\ pc' = "audit" /\ ~present'
        /\ Pending' = Pending
        /\ inFlight' = IF present THEN Pending ELSE inFlight
    BY <1>9 DEF DeleteTenantRow, trafficVars, Pending, Lookups, NextPhase
  <2>2. ~complete
    BY <1>0, <1>9 DEF DeleteTenantRow, CompleteIsLast
  <2>3. \A t \in Table \ {"audit"} : rows'[t] = 0
    BY <1>9 DEF DeleteTenantRow
  <2>4. Pending' <= inFlight'
    BY <1>0, <2>1 DEF GoneForGood
  <2> QED
    BY <1>0, <2>1, <2>2, <2>3, <2>4
       DEF IInv, GoneForGood, AuditAfterTenant, Accounted, CompleteIsLast
<1>10. CASE Verify
  <2>1. /\ UNCHANGED <<present, rows, req, writes, inFlight>> /\ pc' = "done" /\ pc = "verify"
        /\ Pending' = Pending /\ complete' = (Remaining = 0)
    BY <1>10 DEF Verify, trafficVars, Pending, Lookups
  <2>2. ~present /\ Pending <= inFlight
    BY <1>0, <2>1 DEF AuditAfterTenant, GoneForGood
  <2>3. complete' => rows["audit"] = 0
    <3> DEFINE d == rows["deliveries"]  e == rows["events"]
               c == rows["chains"]      a == rows["audit"]
    <3>1. d \in Nat /\ e \in Nat /\ c \in Nat /\ a \in Nat /\ Remaining = d + e + c + a + 0
      BY <1>00, <2>2 DEF Remaining
    <3> HIDE DEF d, e, c, a
    <3>2. Remaining = 0 => a = 0
      BY <3>1
    <3> QED BY <2>1, <3>2 DEF a
  <2> QED
    BY <1>0, <1>00, <2>1, <2>2, <2>3
       DEF IInv, GoneForGood, AuditAfterTenant, Accounted, CompleteIsLast
<1> QED
  BY <1>1, <1>2, <1>3, <1>5, <1>6, <1>7, <1>8, <1>9, <1>10 DEF Next, Sweep

LEMMA AlwaysIInv == Spec => []IInv
BY InitIInv, NextIInv, PTL DEF Spec

(* tenant-purge.ts: the audit rows left after an uncapped sweep come from     *)
(* lookups that had authenticated before the tenants row went.               *)
THEOREM LateRowsWereInFlight == Spec => []OnlyInFlightSurvive
<1>1. IInv => OnlyInFlightSurvive
  <2> SUFFICES ASSUME IInv, pc = "verify", ~capped PROVE rows["audit"] <= inFlight
    BY DEF OnlyInFlightSurvive
  <2>1. rows["audit"] \in Nat /\ inFlight \in Nat /\ Pending \in Nat
    BY PendingNat DEF IInv, TypeOK, Table
  <2> QED BY <2>1 DEF IInv, Accounted
<1> QED
  BY <1>1, AlwaysIInv, PTL

(* tenant-purge.ts: after a complete report the tenant and every row with a   *)
(* foreign key to it are gone for good, and only lookups in flight can have   *)
(* left an audit row.                                                         *)
THEOREM CompleteReportIsTrue == Spec => []CompleteMeansErased
<1>1. IInv => CompleteMeansErased
  <2> SUFFICES ASSUME IInv, complete
               PROVE  /\ ~present
                      /\ \A t \in Table \ {"audit"} : rows[t] = 0
                      /\ rows["audit"] <= inFlight
    BY DEF CompleteMeansErased
  <2>1. rows["audit"] \in Nat /\ inFlight \in Nat /\ Pending \in Nat
    BY PendingNat DEF IInv, TypeOK, Table
  <2>2. rows["audit"] <= inFlight
    BY <2>1 DEF IInv, Accounted
  <2> QED BY <2>2 DEF IInv, AuditAfterTenant, GoneForGood
<1> QED
  BY <1>1, AlwaysIInv, PTL

-----------------------------------------------------------------------------
(* Statements the command still has: MAX_BATCHES for each of its three loops, *)
(* one for the chains, one for the tenants row, and the count at the end.     *)
StatementsLeft ==
  CASE pc = "deliveries" -> 3 * MaxBatches + 3 - batches
    [] pc = "events"     -> 2 * MaxBatches + 3 - batches
    [] pc = "chains"     -> MaxBatches + 3
    [] pc = "tenant"     -> MaxBatches + 2
    [] pc = "audit"      -> MaxBatches + 1 - batches
    [] pc = "verify"     -> 1
    [] OTHER             -> 0

(* Each takes one off, and no traffic beside the command puts one on.         *)
PurgeAdvances ==
  /\ StatementsLeft \in 0..(3 * MaxBatches + 3)
  /\ pc \notin {"idle", "done"} =>
       /\ StatementsLeft' <= StatementsLeft
       /\ Sweep => StatementsLeft' < StatementsLeft

LEMMA SweepAdvances ==
  ASSUME TypeOK, pc \notin {"idle", "done"}, Sweep
  PROVE  StatementsLeft' \in Nat /\ StatementsLeft' < StatementsLeft
<1> USE ErasureAssumption
<1>1. batches \in 0..(MaxBatches - 1)
  BY DEF TypeOK
<1>2. ASSUME NEW t \in {"deliveries", "events", "audit"}, DeleteBatch(t)
      PROVE  StatementsLeft' \in Nat /\ StatementsLeft' < StatementsLeft
  <2>1. /\ pc = t
        /\ \/ pc' = NextPhase(t) /\ batches' = 0
           \/ pc' = t /\ batches' = batches + 1 /\ batches + 1 # MaxBatches
    BY <1>2 DEF DeleteBatch, LoopEnds
  <2>2. CASE pc' = t /\ batches' = batches + 1 /\ batches + 1 # MaxBatches
    BY <1>1, <1>2, <2>1, <2>2 DEF StatementsLeft
  <2>3. CASE pc' = NextPhase(t) /\ batches' = 0
    BY <1>1, <1>2, <2>1, <2>3 DEF StatementsLeft, NextPhase
  <2> QED
    BY <2>1, <2>2, <2>3
<1>3. CASE DeleteChains \/ DeleteTenantRow \/ Verify
  BY <1>1, <1>3 DEF DeleteChains, DeleteTenantRow, Verify, StatementsLeft, NextPhase
<1> QED
  BY <1>2, <1>3 DEF Sweep, StartPurge

(* batched-delete.ts, tenant-purge.ts: whatever is written beside it, the     *)
(* command comes to its report in at most 3 * MAX_BATCHES + 3 statements;     *)
(* EventuallyComplete adds that it is run again until the report is complete. *)
THEOREM PurgeIsBounded == Spec => [][PurgeAdvances]_vars
<1>1. ASSUME IInv, Next PROVE PurgeAdvances
  <2>1. TypeOK
    BY <1>1 DEF IInv
  <2>2. StatementsLeft \in 0..(3 * MaxBatches + 3)
    BY <2>1, ErasureAssumption DEF TypeOK, StatementsLeft
  <2>3. Sweep /\ pc \notin {"idle", "done"} =>
          StatementsLeft' \in Nat /\ StatementsLeft' < StatementsLeft
    BY <2>1, SweepAdvances
  <2>4. ASSUME UNCHANGED <<pc, batches>> PROVE StatementsLeft' <= StatementsLeft
    BY <2>2, <2>4 DEF StatementsLeft
  <2>5. ASSUME Interrupt PROVE StatementsLeft' <= StatementsLeft
    <3>1. StatementsLeft' = 0
      BY <2>5 DEF Interrupt, StatementsLeft
    <3> QED
      BY <2>2, <3>1
  <2>6. \/ Sweep \/ Interrupt \/ UNCHANGED <<pc, batches>>
    BY <1>1 DEF Next, Lookup, Arrive, Authenticate, Answer, WriteAudit, Notify, EnqueueDelivery,
                sweepVars
  <2>7. pc \notin {"idle", "done"} => StatementsLeft' <= StatementsLeft
    BY <2>2, <2>3, <2>4, <2>5, <2>6
  <2> QED
    BY <2>2, <2>3, <2>7 DEF PurgeAdvances
<1>2. IInv /\ [Next]_vars => [PurgeAdvances]_vars
  BY <1>1
<1> QED
  BY <1>2, InitIInv, NextIInv, PTL DEF Spec

=============================================================================
