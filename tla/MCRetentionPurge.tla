--------------------------- MODULE MCRetentionPurge ---------------------------
(* Two events with their deliveries, an audit row of a table that is kept     *)
(* for ever and, behind it in the sweep, a link of a purchase chain; a window *)
(* of one day for the others.                                                *)
EXTENDS RetentionPurge

CONSTANTS r1, r2

MCWindow == [events |-> 1, audit |-> Keep, chains |-> 1]
MCSlots == [events |-> {r1, r2}, audit |-> {r1}, chains |-> {r1}]
=============================================================================
