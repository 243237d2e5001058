--------------------------- MODULE MCTenantErasure ---------------------------
(* A small instance of TenantErasure.                                        *)
EXTENDS TenantErasure
CONSTANTS r1, r2
=============================================================================
