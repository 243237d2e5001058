------------------------------- MODULE MCIngest -------------------------------
(* Small instances of Ingest: an Apple notification of production and a       *)
(* Google one, of a tenant with Apple credentials, without, or set up before  *)
(* its app had an App ID.                                                     *)
EXTENDS Outbound

CONSTANTS n1, n2, t1, h1, h2

MCTenantOf == [n \in Notification |-> t1]
MCSourceOf == [n \in Notification |-> IF n = n1 THEN "apple" ELSE "google"]
MCHomeOf == [n \in Notification |-> "production"]
Ready == {[environment |-> "auto", appAppleId |-> TRUE]}
MCCode == 0..21
SetUps == Ready \cup {NoCreds, [environment |-> "auto", appAppleId |-> FALSE]}
=============================================================================
