-------------------------- MODULE DeliveryLifecycle --------------------------
(***************************************************************************)
(* What an outbound webhook delivery promises, whatever runs it: a row is   *)
(* created pending, every recorded attempt counts once against the retry    *)
(* budget, and `delivered' and `failed' are final (until the row itself is  *)
(* deleted).  Dispatcher implements this while no attempt throws.           *)
(***************************************************************************)
EXTENDS Naturals

CONSTANTS Delivery,   \* ids of webhook_deliveries rows
          MaxRetries  \* WEBHOOK_MAX_RETRIES

VARIABLES status,     \* status column; "none" before the insert, "deleted" after a delete
          attempts    \* attempt_count column

lifeVars == <<status, attempts>>

(* Rows not there yet, and rows an earlier process left pending.            *)
LifeInit ==
  /\ status \in [Delivery -> {"none", "pending"}]
  /\ attempts = [d \in Delivery |-> 0]

(* The insert of a pending row.                                             *)
Create(d) ==
  /\ status[d] = "none"
  /\ status' = [status EXCEPT ![d] = "pending"]
  /\ UNCHANGED attempts

(* One recorded attempt: the row stays pending only within the budget.      *)
Attempt(d) ==
  /\ status[d] = "pending"
  /\ attempts' = [attempts EXCEPT ![d] = @ + 1]
  /\ \E s \in {"pending", "delivered", "failed"} :
       /\ s = "pending" => attempts[d] < MaxRetries
       /\ status' = [status EXCEPT ![d] = s]

(* Retention purge, tenant purge or cascade.                                *)
Delete(d) ==
  /\ status[d] # "none"
  /\ status' = [status EXCEPT ![d] = "deleted"]
  /\ UNCHANGED attempts

LifeNext == \E d \in Delivery : Create(d) \/ Attempt(d) \/ Delete(d)

LifeSpec == LifeInit /\ [][LifeNext]_lifeVars

=============================================================================
