----------------------------- MODULE MCDispatcher -----------------------------
(* Small instances of Dispatcher: two deliveries, of one tenant or of two,    *)
(* and three deliveries, one of a tenant by itself.                           *)
EXTENDS SignedDelivery, TLC

CONSTANTS d1, d2, d3, t1, t2

TwoDeliveries == {d1, d2}
OneTenantOf == [d \in TwoDeliveries |-> t1]
TwoTenantsOf == (d1 :> t1) @@ (d2 :> t2)
ThreeDeliveries == {d1, d2, d3}
FirstAlone == [d \in ThreeDeliveries |-> IF d = d1 THEN t1 ELSE t2]
MCSchedule == <<1, 2>>
=============================================================================
